---- MODULE Spec2Model ----
(***************************************************************************)
(* Model of the chat server (src/chat_server.py) and of the message        *)
(* catalog it uses (src/protocol.py).                                      *)
(*                                                                         *)
(* Threads: the main thread (accept loop, then shutdown), the idle checker *)
(* and one handler thread per accepted connection.  A connection is named  *)
(* by a number of Conns; the same number names its socket, its handler     *)
(* thread and its session.  client_lock is a threading.Lock: lock holds    *)
(* the thread inside a `with self.client_lock` block that has not finished *)
(* in one step, and NoHolder otherwise.  A block that calls nothing that   *)
(* can block is one step, guarded by lock = NoHolder.                      *)
(*                                                                         *)
(* Strings are tuples of one-character strings; a payload (a Python dict)  *)
(* is a record.  out[t] is the list of socket writes thread t has made in  *)
(* the operation it is executing: the model's view of sendall.  Each write *)
(* records whether it went through (ok) and whether client_lock was held   *)
(* by the writer (locked).                                                 *)
(***************************************************************************)
EXTENDS Integers, Sequences, FiniteSets, TLC

\* ------------------------------------------------------------------ bounds
NumConns == 5          \* connections the server can be offered
NumChatters == 2       \* connections that send commands
NumJoiners == 1        \* connections that join a channel when the pool is studied
MaxPort == 2           \* remote ports are 1..MaxPort
MaxTime == 360         \* the clock stops advancing here
TickStep == 90         \* seconds the clock advances in one step
MaxChunk == 2          \* lines one recv can bring

\* ------------------------------------------------------- program constants
max_threads == 4
idle_timeout == 180
MaxNickLen == 20
MinChannelLen == 2

Conns == 1..NumConns
Chatters == 1..NumChatters
Joiners == 1..NumJoiners
Ports == 1..MaxPort
Main == 0              \* the main thread, as a writer of out
NoHolder == -1         \* client_lock is free
NoConn == -2           \* Python's None where a socket is expected
Idle == -3             \* the idle checker thread, as a holder of client_lock

\* ---------------------------------------------------------------- strings
None == <<"<None>">>   \* Python's None where a string is expected
EmptyStr == <<>>
Letters == {"a", "b", "c", "e", "o", "r", "s", "u"}
DigitChars == <<"0", "1", "2", "3", "4", "5", "6", "7", "8", "9">>
Digits == {DigitChars[i] : i \in 1..10}
Whitespace == {" "}

RECURSIVE Str(_)
Str(n) == IF n < 10 THEN <<DigitChars[n + 1]>>
          ELSE Str(n \div 10) \o <<DigitChars[(n % 10) + 1]>>

RECURSIVE LStrip(_)
LStrip(s) == IF s # <<>> /\ Head(s) \in Whitespace THEN LStrip(Tail(s)) ELSE s

RECURSIVE RStrip(_)
RStrip(s) == IF s # <<>> /\ s[Len(s)] \in Whitespace
             THEN RStrip(SubSeq(s, 1, Len(s) - 1)) ELSE s

Strip(s) == RStrip(LStrip(s))

Replace(s, ch) == SelectSeq(s, LAMBDA x : x # ch)

IsAlnum(s) == s # <<>> /\ \A i \in 1..Len(s) : s[i] \in Letters \cup Digits

\* Faulty variant of StartsWith: any first character will do.
StartsWith_Any(s, ch) == TRUE

StartsWith(s, ch) == s # <<>> /\ s[1] = ch

Falsy(s) == s = None \/ s = EmptyStr

Get(d, k, default) == IF k \in DOMAIN d THEN d[k] ELSE default

\* ------------------------------------------------ protocol.py: the catalog
COMMAND == "command"
RESPONSE == "response"
EVENT == "event"
MessageType == {COMMAND, RESPONSE, EVENT}

EmptyDict == [k \in {} |-> EmptyStr]

Message(type, name, data) == [type |-> type, name |-> name, data |-> data]

\* A fixed text is one word; NoText is the text that is None or empty.
NoText == ""

cmd_connect(server, port_no) ==
    Message(COMMAND, "connect", [server |-> server, port |-> port_no])

cmd_nick(nickname) == Message(COMMAND, "nick", [nickname |-> nickname])

cmd_list == Message(COMMAND, "list", EmptyDict)

cmd_join(channel) == Message(COMMAND, "join", [channel |-> channel])

cmd_leave(channel) ==
    Message(COMMAND, "leave", IF Falsy(channel) THEN EmptyDict ELSE [channel |-> channel])

cmd_quit(reason) ==
    Message(COMMAND, "quit", IF reason = NoText THEN EmptyDict ELSE [reason |-> reason])

cmd_help == Message(COMMAND, "help", EmptyDict)

cmd_msg(text, channel) ==
    Message(COMMAND, "msg",
            IF Falsy(channel) THEN [text |-> text]
            ELSE [text |-> text, channel |-> channel])

resp_ok(command_name, data) ==
    Message(RESPONSE, command_name, [status |-> "ok"] @@ data)

resp_error(command_name, error_msg) ==
    Message(RESPONSE, command_name, [status |-> "error", error |-> error_msg])

resp_connected(server_name, client_id, motd) ==
    resp_ok("connect",
            IF motd = NoText THEN [server |-> server_name, client_id |-> client_id]
            ELSE [server |-> server_name, client_id |-> client_id, motd |-> motd])

resp_list_channels(chans) == resp_ok("list", [channels |-> chans])

resp_help(commands) == resp_ok("help", [commands |-> commands])

evt_message(channel, sender, text, timestamp) ==
    Message(EVENT, "message",
            [channel |-> channel, from |-> sender, text |-> text, timestamp |-> timestamp])

evt_user_joined(channel, username) ==
    Message(EVENT, "user_joined", [channel |-> channel, user |-> username])

evt_user_left(channel, username) ==
    Message(EVENT, "user_left", [channel |-> channel, user |-> username])

evt_server_shutdown(reason) ==
    Message(EVENT, "server_shutdown",
            IF reason = NoText THEN EmptyDict ELSE [reason |-> reason])

\* -------------------------------------------- protocol.py: JSON and codec
\* What json.loads returns: a Python value, tagged with its type.  A str is
\* a tuple of symbols; a symbol is a character or a word of the protocol's
\* vocabulary (a key, a name, a fixed text), which has no quote, backslash
\* or newline in it.  A dict is a function from keys, which are words.
JStr(s) == [t |-> "str", s |-> s]
JNum(n) == [t |-> "num", n |-> n]
JBool(b) == [t |-> "bool", b |-> b]
JNull == [t |-> "null"]
JList(items) == [t |-> "list", items |-> items]
JDict(m) == [t |-> "dict", m |-> m]
Word(w) == JStr(<<w>>)

\* Faulty variant of Truthy: every value counts as true.
Truthy_Always(v) == TRUE

\* Python's truth value of a value
Truthy(v) ==
    IF v.t = "str" THEN v.s # <<>>
    ELSE IF v.t = "num" THEN v.n # 0
    ELSE IF v.t = "bool" THEN v.b
    ELSE IF v.t = "list" THEN v.items # <<>>
    ELSE IF v.t = "dict" THEN DOMAIN v.m # {}
    ELSE FALSE

\* dict.get
PyGet(d, k, default) == IF k \in DOMAIN d.m THEN d.m[k] ELSE default

\* The Python value a field of a payload of the model stands for: the model
\* writes a fixed text as one word, a string a peer chose as a tuple of
\* characters, None as None, a count as a number, the list of channels as
\* a set and the list of help texts as one text.
WordKeys == {"status", "error", "server", "motd", "reason"}
NumKeys == {"users", "timestamp", "port"}
ListKeys == {"channels"}

RECURSIVE SetToSeq(_)
SetToSeq(S) == IF S = {} THEN <<>>
               ELSE LET x == CHOOSE y \in S : TRUE IN <<x>> \o SetToSeq(S \ {x})

RECURSIVE PyDict(_)
PyValue(k, v) ==
    IF k \in WordKeys THEN Word(v)
    ELSE IF k \in NumKeys THEN JNum(v)
    ELSE IF k = "commands" THEN JList(<<Word(v)>>)
    ELSE IF k \in ListKeys
    THEN LET items == SetToSeq(v) IN JList([i \in DOMAIN items |-> PyDict(items[i])])
    ELSE IF v = None THEN JNull
    ELSE JStr(v)

PyDict(d) == JDict([k \in DOMAIN d |-> PyValue(k, d[k])])

\* The Message object a message of the model stands for
PyMessage(m) == [type |-> m.type, name |-> Word(m.name), data |-> PyDict(m.data)]

\* Message.to_dict
to_dict(msg) == JDict([type |-> Word(msg.type), name |-> msg.name, data |-> msg.data])

\* JSON text is a tuple of symbols.  json.dumps with separators (",", ":"):
\* the keys of a dict are written in KeyOrder.
KeyOrder == <<"type", "name", "data", "status", "error", "server", "client_id", "motd",
              "port", "nickname", "channels", "users", "commands", "channel", "from",
              "user", "text", "timestamp", "reason">>

\* Faulty variant of EscapeSym: nothing is escaped.
EscapeSym_None(x) == <<x>>

\* json.dumps: the escapes of a quote, a backslash and a newline in a str
EscapeSym(x) ==
    IF x = "\"" THEN <<"\\", "\"">>
    ELSE IF x = "\\" THEN <<"\\", "\\">>
    ELSE IF x = "\n" THEN <<"\\", "n">>
    ELSE <<x>>

RECURSIVE Escape(_)
Escape(s) == IF s = <<>> THEN <<>> ELSE EscapeSym(Head(s)) \o Escape(Tail(s))

DumpsStr(s) == <<"\"">> \o Escape(s) \o <<"\"">>

RECURSIVE json_dumps(_), DumpsItems(_), DumpsPairs(_, _)
json_dumps(v) ==
    IF v.t = "str" THEN DumpsStr(v.s)
    ELSE IF v.t = "num" THEN Str(v.n)
    ELSE IF v.t = "bool" THEN IF v.b THEN <<"true">> ELSE <<"false">>
    ELSE IF v.t = "null" THEN <<"null">>
    ELSE IF v.t = "list" THEN <<"[">> \o DumpsItems(v.items) \o <<"]">>
    ELSE <<"{">> \o DumpsPairs(v.m, SelectSeq(KeyOrder, LAMBDA k : k \in DOMAIN v.m))
             \o <<"}">>

DumpsItems(items) ==
    IF items = <<>> THEN <<>>
    ELSE json_dumps(Head(items))
             \o (IF Len(items) > 1 THEN <<",">> \o DumpsItems(Tail(items)) ELSE <<>>)

DumpsPairs(m, keys) ==
    IF keys = <<>> THEN <<>>
    ELSE DumpsStr(<<Head(keys)>>) \o <<":">> \o json_dumps(m[Head(keys)])
             \o (IF Len(keys) > 1 THEN <<",">> \o DumpsPairs(m, Tail(keys)) ELSE <<>>)

\* Protocol.encode
encode(msg) == json_dumps(to_dict(msg)) \o <<"\n">>

\* json.loads: the value the text stands for, or NotJson where it raises
\* JSONDecodeError.  A parse step gives the value and the position after it.
NotJson == [notjson |-> TRUE]
Fail == [ok |-> FALSE]
Parsed(v, i) == [ok |-> TRUE, v |-> v, i |-> i]
JsonSpace == {" ", "\n"}
EmptyMap == [k \in {} |-> JNull]

RECURSIVE SkipSpace(_, _)
SkipSpace(t, i) == IF i <= Len(t) /\ t[i] \in JsonSpace THEN SkipSpace(t, i + 1) ELSE i

RECURSIVE ParseChars(_, _, _)
ParseChars(t, i, acc) ==
    IF i > Len(t) THEN Fail
    ELSE IF t[i] = "\"" THEN Parsed(JStr(acc), i + 1)
    ELSE IF t[i] = "\n" THEN Fail
    ELSE IF t[i] = "\\"
    THEN IF i + 1 > Len(t) THEN Fail
         ELSE IF t[i + 1] = "n" THEN ParseChars(t, i + 2, Append(acc, "\n"))
         ELSE IF t[i + 1] \in {"\"", "\\"} THEN ParseChars(t, i + 2, Append(acc, t[i + 1]))
         ELSE Fail
    ELSE ParseChars(t, i + 1, Append(acc, t[i]))

DigitValue(x) == CHOOSE n \in 0..9 : DigitChars[n + 1] = x

RECURSIVE ParseDigits(_, _, _)
ParseDigits(t, i, n) ==
    IF i <= Len(t) /\ t[i] \in Digits
    THEN ParseDigits(t, i + 1, 10 * n + DigitValue(t[i]))
    ELSE Parsed(JNum(n), i)

RECURSIVE ParseValue(_, _), ParseItems(_, _, _), ParsePairs(_, _, _)
ParseValue(t, i) ==
    IF i > Len(t) THEN Fail
    ELSE IF t[i] = "\"" THEN ParseChars(t, i + 1, <<>>)
    ELSE IF t[i] = "null" THEN Parsed(JNull, i + 1)
    ELSE IF t[i] = "true" THEN Parsed(JBool(TRUE), i + 1)
    ELSE IF t[i] = "false" THEN Parsed(JBool(FALSE), i + 1)
    ELSE IF t[i] = "0" THEN Parsed(JNum(0), i + 1)
    ELSE IF t[i] \in Digits THEN ParseDigits(t, i, 0)
    ELSE IF t[i] = "["
    THEN LET j == SkipSpace(t, i + 1) IN
         IF j <= Len(t) /\ t[j] = "]" THEN Parsed(JList(<<>>), j + 1)
         ELSE ParseItems(t, j, <<>>)
    ELSE IF t[i] = "{"
    THEN LET j == SkipSpace(t, i + 1) IN
         IF j <= Len(t) /\ t[j] = "}" THEN Parsed(JDict(EmptyMap), j + 1)
         ELSE ParsePairs(t, j, EmptyMap)
    ELSE Fail

ParseItems(t, i, acc) ==
    LET r == ParseValue(t, i) IN
    IF ~r.ok THEN Fail
    ELSE LET j == SkipSpace(t, r.i) IN
         IF j > Len(t) THEN Fail
         ELSE IF t[j] = "]" THEN Parsed(JList(Append(acc, r.v)), j + 1)
         ELSE IF t[j] = "," THEN ParseItems(t, SkipSpace(t, j + 1), Append(acc, r.v))
         ELSE Fail

\* The key of a pair: a str of one symbol, the word.
ParsePairs(t, i, m) ==
    IF i > Len(t) \/ t[i] # "\"" THEN Fail
    ELSE LET k == ParseChars(t, i + 1, <<>>) IN
         IF ~k.ok \/ Len(k.v.s) # 1 THEN Fail
         ELSE LET j == SkipSpace(t, k.i) IN
              IF j > Len(t) \/ t[j] # ":" THEN Fail
              ELSE LET r == ParseValue(t, SkipSpace(t, j + 1)) IN
                   IF ~r.ok THEN Fail
                   ELSE LET n == SkipSpace(t, r.i)
                            m2 == [x \in DOMAIN m \cup {k.v.s[1]} |->
                                      IF x = k.v.s[1] THEN r.v ELSE m[x]]
                        IN IF n > Len(t) THEN Fail
                           ELSE IF t[n] = "}" THEN Parsed(JDict(m2), n + 1)
                           ELSE IF t[n] = "," THEN ParsePairs(t, SkipSpace(t, n + 1), m2)
                           ELSE Fail

json_loads(t) ==
    LET r == ParseValue(t, SkipSpace(t, 1)) IN
    IF r.ok /\ SkipSpace(t, r.i) = Len(t) + 1 THEN r.v ELSE NotJson

\* Message.from_dict: DecodeError stands for the ValueError it raises.
DecodeError == [decode_error |-> TRUE]

from_dict(raw) ==
    IF raw.t # "dict" THEN DecodeError
    ELSE IF "type" \notin DOMAIN raw.m THEN DecodeError
    ELSE IF raw.m["type"].t # "str" THEN DecodeError
    ELSE IF Len(raw.m["type"].s) # 1 \/ raw.m["type"].s[1] \notin MessageType
    THEN DecodeError
    ELSE IF "name" \notin DOMAIN raw.m THEN DecodeError
    ELSE LET data == PyGet(raw, "data", JDict(EmptyMap)) IN
         Message(raw.m["type"].s[1], raw.m["name"],
                 IF Truthy(data) THEN data ELSE JDict(EmptyMap))

\* Protocol.decode, lines 109-111, on what json.loads has made of the line
Decoded(raw) == IF raw = NotJson THEN DecodeError ELSE from_dict(raw)

\* Protocol.decode
decode(line) == Decoded(json_loads(line))

\* ------------------------------------------------------------------- state
VARIABLES
    running,        \* ChatServer.running
    last_activity,  \* ChatServer.last_activity
    now,            \* time.time()
    clients,        \* ChatServer.clients: socket -> [nickname, channels]
    channels,       \* ChatServer.channels: channel name -> set of sockets
    lock,           \* holder of ChatServer.client_lock across steps
    sem,            \* value of ChatServer.thread_semaphore
    port,           \* address[1] of each accepted connection
    sock_closed,    \* the server has closed this socket
    peer_gone,      \* the peer has reset this connection: writes to it fail
    pc,             \* position of each handler thread
    loc,            \* locals of each handler thread
    out,            \* socket writes of each thread in its current operation
    mainpc,         \* position of the main thread (start, then shutdown)
    idlepc,         \* position of the idle checker thread
    codec           \* a message on its way through encode and decode

server_vars == <<running, last_activity, now, clients, channels, lock, sem, port,
                 sock_closed, peer_gone, pc, loc, out, mainpc, idlepc>>

vars == <<server_vars, codec>>

ChanA == <<"#", "a">>
ChanB == <<"#", "b">>
NickBob == <<"b", "o", "b">>
TextHi == <<"h", "i">>

\* What the clients send.
NickInputs == {NickBob, <<"u", "s", "e", "r", "_", "1">>, <<"b", "o", "b", "!">>, <<"_">>}
JoinInputs == {ChanA, ChanB}
ChannelArgs == {None, ChanA, ChanB}
TextInputs == {TextHi}

\* A command line, as json.loads returns it
CmdLine(name, data) == to_dict(PyMessage(Message(COMMAND, name, data)))

\* The locals of a handler thread.  buffer holds the lines received and not
\* yet processed; chunk keeps the lines of the last recv that brought more
\* than one, and answers the names of the responses written for them so far.
NoLocals == [cmd |-> "none", channel |-> EmptyStr, nickname |-> EmptyStr,
             text |-> EmptyStr, exclude |-> NoConn, todo |-> {}, before |-> {},
             buffer |-> <<>>, chunk |-> <<>>, answers |-> <<>>]

DefaultNick(p) == <<"u", "s", "e", "r", "_">> \o Str(p)

\* Faulty variant of ValidNick: every nickname is accepted.
ValidNick_Any(nickname) == TRUE

\* _handle_nick, line 184
ValidNick(nickname) ==
    ~(nickname = EmptyStr \/ Len(nickname) > MaxNickLen
      \/ ~IsAlnum(Replace(nickname, "_")))

\* Faulty variant of ValidChannel: every channel name is accepted.
ValidChannel_Any(channel) == TRUE

\* _handle_join, line 220
ValidChannel(channel) ==
    ~(channel = EmptyStr \/ ~StartsWith(channel, "#") \/ Len(channel) < MinChannelLen)

\* _send_message: sendall on a socket the server has closed, or whose peer
\* has reset the connection, raises, and the exception is swallowed; ok
\* records whether the write went through.
Write(to, m, held) ==
    [to |-> to, msg |-> m, ok |-> ~sock_closed[to] /\ ~peer_gone[to], locked |-> held]

Send(o, to, m, held) == Append(o, Write(to, m, held))

\* _send_error
SendError(o, to, command_name, error_msg, held) ==
    Send(o, to, resp_error(command_name, error_msg), held)

\* The orders in which a set can be iterated.
Orders(S) == {s \in [1..Cardinality(S) -> S] : \A i, j \in DOMAIN s : i # j => s[i] # s[j]}

SendEach(o, order, m, held) == o \o [i \in 1..Len(order) |-> Write(order[i], m, held)]

Put(f, k, v) == [x \in DOMAIN f \cup {k} |-> IF x = k THEN v ELSE f[x]]
Del(f, k) == [x \in DOMAIN f \ {k} |-> f[x]]

NoClients == [x \in {} |-> [nickname |-> EmptyStr, channels |-> {}]]
NoChannels == [x \in {} |-> {}]

\* No message is on its way through the codec.
NoCodec == [stage |-> "idle", src |-> "none", m |-> JNull, line |-> <<>>, result |-> JNull]

ServerInit ==
    /\ running = TRUE
    /\ last_activity = 0
    /\ now = 0
    /\ clients = NoClients
    /\ channels = NoChannels
    /\ lock = NoHolder
    /\ sem = max_threads
    /\ port = [c \in Conns |-> 0]
    /\ sock_closed = [c \in Conns |-> FALSE]
    /\ peer_gone = [c \in Conns |-> FALSE]
    /\ pc = [c \in Conns |-> "idle"]
    /\ loc = [c \in Conns |-> NoLocals]
    /\ out = [t \in Conns \cup {Main} |-> <<>>]
    /\ mainpc = "accept"
    /\ idlepc = "run"

Init == ServerInit /\ codec = NoCodec

\* ------------------------------------------------------------ main thread
\* start, lines 53-65: a connection is accepted and its handler thread
\* started.  accept may return a connection after running was cleared.
Accept(c, p) ==
    /\ mainpc = "accept"
    /\ pc[c] = "idle"
    /\ last_activity' = now
    /\ port' = [port EXCEPT ![c] = p]
    /\ pc' = [pc EXCEPT ![c] = "sem_wait"]
    /\ UNCHANGED codec
    /\ UNCHANGED <<running, now, clients, channels, lock, sem, sock_closed, peer_gone, loc, out,
                   mainpc, idlepc>>

\* start, lines 53 and 74-79, and shutdown, line 393: the accept loop ends,
\* on Ctrl-C or because running is false, and shutdown begins
ShutdownBegin ==
    /\ mainpc = "accept"
    /\ running' = FALSE
    /\ mainpc' = "shutdown_lock"
    /\ UNCHANGED codec
    /\ UNCHANGED <<last_activity, now, clients, channels, lock, sem, port,
                   sock_closed, peer_gone, pc, loc, out, idlepc>>

\* shutdown, lines 396-405
ShutdownClear ==
    /\ mainpc = "shutdown_lock"
    /\ lock = NoHolder
    /\ \E order \in Orders(DOMAIN clients) :
           out' = [out EXCEPT ![Main] =
                      SendEach(<<>>, order, evt_server_shutdown("Server shutting down"),
                               TRUE)]
    /\ sock_closed' = [c \in Conns |-> sock_closed[c] \/ c \in DOMAIN clients]
    /\ clients' = NoClients
    /\ channels' = NoChannels
    /\ mainpc' = "done"
    /\ UNCHANGED codec
    /\ UNCHANGED <<running, last_activity, now, lock, sem, port, peer_gone, pc, loc,
                   idlepc>>

\* ------------------------------------------------------------ idle checker
\* _check_idle, line 83: the loop ends once running is false
IdleExit ==
    /\ idlepc = "run"
    /\ ~running
    /\ idlepc' = "done"
    /\ UNCHANGED codec
    /\ UNCHANGED <<running, last_activity, now, clients, channels, lock, sem, port,
                   sock_closed, peer_gone, pc, loc, out, mainpc>>

\* _check_idle, lines 86-88
IdleExpired(cl, t, last) == DOMAIN cl = {} /\ t - last > idle_timeout

\* _check_idle, lines 83-84: running is true and the thread sleeps
IdleWake ==
    /\ idlepc = "run"
    /\ running
    /\ idlepc' = "check"
    /\ UNCHANGED codec
    /\ UNCHANGED <<running, last_activity, now, clients, channels, lock, sem, port,
                   sock_closed, peer_gone, pc, loc, out, mainpc>>

\* _check_idle, lines 85-88: one round of the loop, up to the decision.  When
\* the server has been idle the thread goes on to line 90 with client_lock held.
IdleCheck ==
    /\ idlepc = "check"
    /\ lock = NoHolder
    /\ IF IdleExpired(clients, now, last_activity)
       THEN lock' = Idle /\ idlepc' = "stop"
       ELSE idlepc' = "run" /\ UNCHANGED lock
    /\ UNCHANGED codec
    /\ UNCHANGED <<running, last_activity, now, clients, channels, sem, port,
                   sock_closed, peer_gone, pc, loc, out, mainpc>>

\* _check_idle, lines 89-91: the stop flag is set and the lock released
IdleStop ==
    /\ idlepc = "stop"
    /\ lock = Idle
    /\ running' = FALSE
    /\ lock' = NoHolder
    /\ idlepc' = "done"
    /\ UNCHANGED codec
    /\ UNCHANGED <<last_activity, now, clients, channels, sem, port, sock_closed,
                   peer_gone, pc, loc, out, mainpc>>

\* time passes
Tick ==
    /\ now + TickStep <= MaxTime
    /\ now' = now + TickStep
    /\ UNCHANGED codec
    /\ UNCHANGED <<running, last_activity, clients, channels, lock, sem, port,
                   sock_closed, peer_gone, pc, loc, out, mainpc, idlepc>>

\* The peer resets the connection: from now on writes to it fail, and so
\* does the next recv (ConnectionLost).
PeerReset(c) ==
    /\ pc[c] \notin {"idle", "closed"}
    /\ ~peer_gone[c]
    /\ peer_gone' = [peer_gone EXCEPT ![c] = TRUE]
    /\ UNCHANGED codec
    /\ UNCHANGED <<running, last_activity, now, clients, channels, lock, sem, port,
                   sock_closed, pc, loc, out, mainpc, idlepc>>

\* --------------------------------------------------------- handler threads
\* Faulty variant of SlotFree: the semaphore never makes a thread wait.
SlotFree_Always(s) == TRUE

\* threading.Semaphore.acquire returns when the counter is positive
SlotFree(s) == s > 0

\* _handle_client, line 96
AcquireSlot(c) ==
    /\ pc[c] = "sem_wait"
    /\ SlotFree(sem)
    /\ sem' = sem - 1
    /\ pc' = [pc EXCEPT ![c] = "register"]
    /\ UNCHANGED codec
    /\ UNCHANGED <<running, last_activity, now, clients, channels, lock, port,
                   sock_closed, peer_gone, loc, out, mainpc, idlepc>>

\* _handle_client, lines 100-104
NewSession(p) == [nickname |-> DefaultNick(p), channels |-> {}]

\* _handle_client, lines 99-114: the session is registered and, with the
\* lock released, the welcome is written
Register(c) ==
    /\ pc[c] = "register"
    /\ lock = NoHolder
    /\ clients' = Put(clients, c, NewSession(port[c]))
    /\ out' = [out EXCEPT ![c] =
                  Send(<<>>, c, resp_connected("ChatServer", Str(port[c]),
                                               "Welcome to the chat server!"), FALSE)]
    /\ pc' = [pc EXCEPT ![c] = "loop"]
    /\ UNCHANGED codec
    /\ UNCHANGED <<running, last_activity, now, channels, lock, sem, port,
                   sock_closed, peer_gone, loc, mainpc, idlepc>>

\* _handle_client, line 119, on entry: while self.running
HandlerLoop(c) ==
    /\ pc[c] = "loop"
    /\ pc' = [pc EXCEPT ![c] = IF running THEN "recv" ELSE "disconnect"]
    /\ out' = [out EXCEPT ![c] = <<>>]
    /\ UNCHANGED codec
    /\ UNCHANGED <<running, last_activity, now, clients, channels, lock, sem, port,
                   sock_closed, peer_gone, loc, mainpc, idlepc>>

\* _handle_client, lines 122-125 and 138-140: EOF, a read error, or a recv on
\* a socket that shutdown has closed
ConnectionLost(c) ==
    /\ pc[c] = "recv"
    /\ pc' = [pc EXCEPT ![c] = "disconnect"]
    /\ UNCHANGED codec
    /\ UNCHANGED <<running, last_activity, now, clients, channels, lock, sem, port,
                   sock_closed, peer_gone, loc, out, mainpc, idlepc>>

Answered(name, o) == [pc |-> "cmd_done", loc |-> [NoLocals EXCEPT !.cmd = name], out |-> o]
Pending(at, l) == [pc |-> at, loc |-> l, out |-> <<>>]

\* _handle_client, lines 138-140: an exception that _process_message does
\* not catch (AttributeError, TypeError, KeyError) ends the read loop
Crashed(name) == [pc |-> "disconnect", loc |-> [NoLocals EXCEPT !.cmd = name], out |-> <<>>]

\* What stands in the model for a channel argument that is no str: a list
\* or dict, which no set can be asked for (TypeError), and any other value,
\* which is in no set of channel names.
Unhashable == <<"<unhashable>">>
NotAName == <<"<not a str>">>

\* msg.data.get("channel") of _handle_leave and _handle_msg, as the model
\* keeps it
ChannelArg(v) ==
    IF v.t = "str" THEN v.s
    ELSE IF ~Truthy(v) THEN None
    ELSE IF v.t \in {"list", "dict"} THEN Unhashable
    ELSE NotAName

\* _process_message and the part of each handler that runs before it asks
\* for client_lock: the thread's next position, its locals and its writes.
\* msg.data.get raises AttributeError when data is no dict, and so does
\* strip on a value that is no str.
Dispatch(c, line) ==
    LET msg == Decoded(line) IN
    IF msg = DecodeError
    THEN Answered("invalid", SendError(<<>>, c, "unknown", "Invalid message format", FALSE))
    ELSE IF msg.type # COMMAND
    THEN Answered("invalid", SendError(<<>>, c, "unknown", "Expected command message", FALSE))
    ELSE IF msg.name = Word("nick") THEN
        IF msg.data.t # "dict" THEN Crashed("nick")
        ELSE LET v == PyGet(msg.data, "nickname", JStr(EmptyStr)) IN
        IF v.t # "str" THEN Crashed("nick")
        ELSE LET nickname == Strip(v.s) IN
        IF ~ValidNick(nickname)
        THEN [Answered("nick", SendError(<<>>, c, "nick", "Invalid nickname format", FALSE))
                 EXCEPT !.loc.nickname = nickname]
        ELSE Pending("nick_lock", [NoLocals EXCEPT !.cmd = "nick", !.nickname = nickname])
    ELSE IF msg.name = Word("list") THEN
        Pending("list_lock", [NoLocals EXCEPT !.cmd = "list"])
    ELSE IF msg.name = Word("join") THEN
        IF msg.data.t # "dict" THEN Crashed("join")
        ELSE LET v == PyGet(msg.data, "channel", JStr(EmptyStr)) IN
        IF v.t # "str" THEN Crashed("join")
        ELSE LET channel == Strip(v.s) IN
        IF ~ValidChannel(channel)
        THEN Answered("join", SendError(<<>>, c, "join", "Invalid channel name", FALSE))
        ELSE Pending("join_lock", [NoLocals EXCEPT !.cmd = "join", !.channel = channel])
    ELSE IF msg.name = Word("leave") THEN
        IF msg.data.t # "dict" THEN Crashed("leave")
        ELSE Pending("leave_lock",
                     [NoLocals EXCEPT !.cmd = "leave",
                                      !.channel = ChannelArg(PyGet(msg.data, "channel", JNull))])
    ELSE IF msg.name = Word("msg") THEN
        IF msg.data.t # "dict" THEN Crashed("msg")
        ELSE LET v == PyGet(msg.data, "text", JStr(EmptyStr)) IN
        IF v.t # "str" THEN Crashed("msg")
        ELSE LET text == Strip(v.s) IN
        IF text = EmptyStr
        THEN Answered("msg", <<>>)
        ELSE Pending("msg_lock",
                     [NoLocals EXCEPT !.cmd = "msg", !.text = text,
                                      !.channel = ChannelArg(PyGet(msg.data, "channel", JNull))])
    ELSE IF msg.name = Word("help") THEN
        Answered("help", Send(<<>>, c, resp_help("/help - Show this help message"), FALSE))
    ELSE IF msg.name = Word("quit") THEN
        IF msg.data.t # "dict" THEN Crashed("quit")
        ELSE Answered("quit", Send(<<>>, c, resp_ok("quit", EmptyDict), FALSE))
    ELSE Answered("unknown",
                  SendError(<<>>, c, IF msg.name.t = "str" /\ Len(msg.name.s) = 1
                                     THEN msg.name.s[1] ELSE "<name>",
                            "Unknown command", FALSE))

\* _handle_client, lines 122-133: one line is read and _process_message called
ReadFrame(c, line) ==
    /\ pc[c] = "recv"
    /\ ~sock_closed[c]
    /\ ~peer_gone[c]
    /\ LET r == Dispatch(c, line) IN
        /\ pc' = [pc EXCEPT ![c] = r.pc]
        /\ loc' = [loc EXCEPT ![c] = r.loc]
        /\ out' = [out EXCEPT ![c] = r.out]
    /\ UNCHANGED codec
    /\ UNCHANGED <<running, last_activity, now, clients, channels, lock, sem, port,
                   sock_closed, peer_gone, mainpc, idlepc>>

\* The names of the responses among the writes o to connection c, in order
ResponseNames(o, c) ==
    LET r == SelectSeq(o, LAMBDA w : w.to = c /\ w.msg.type = RESPONSE)
    IN [i \in DOMAIN r |-> r[i].msg.name]

\* _handle_client, line 134, then line 130: with a line left in the buffer
\* the inner loop goes on, whatever running is; with none, line 119 on the
\* way back to recv
FinishCommand(c) ==
    /\ pc[c] = "cmd_done"
    /\ last_activity' = now
    /\ IF loc[c].buffer = <<>>
       THEN /\ pc' = [pc EXCEPT ![c] = IF running THEN "recv" ELSE "disconnect"]
            /\ loc' = [loc EXCEPT ![c] = NoLocals]
       ELSE /\ pc' = [pc EXCEPT ![c] = "next_line"]
            /\ loc' = [loc EXCEPT ![c] =
                          [NoLocals EXCEPT !.buffer = loc[c].buffer,
                                           !.chunk = loc[c].chunk,
                                           !.answers = loc[c].answers
                                                           \o ResponseNames(out[c], c)]]
    /\ out' = [out EXCEPT ![c] = <<>>]
    /\ UNCHANGED codec
    /\ UNCHANGED <<running, now, clients, channels, lock, sem, port, sock_closed, peer_gone,
                   mainpc, idlepc>>

\* Faulty variant of FirstLine: the last line of the buffer is taken.
FirstLine_Last(buffer) == buffer[Len(buffer)]

\* _handle_client, line 131: buffer.split('\n', 1)
FirstLine(buffer) == Head(buffer)
RestLines(buffer) == Tail(buffer)

\* _handle_client, lines 122-133: one recv brings several lines; the first
\* is processed and the others stay in the buffer
RecvLines(c, lines) ==
    /\ pc[c] = "recv"
    /\ ~sock_closed[c]
    /\ ~peer_gone[c]
    /\ Len(lines) > 1
    /\ LET r == Dispatch(c, FirstLine(lines)) IN
        /\ pc' = [pc EXCEPT ![c] = r.pc]
        /\ loc' = [loc EXCEPT ![c] = [r.loc EXCEPT !.buffer = RestLines(lines),
                                                   !.chunk = lines]]
        /\ out' = [out EXCEPT ![c] = r.out]
    /\ UNCHANGED codec
    /\ UNCHANGED <<running, last_activity, now, clients, channels, lock, sem, port,
                   sock_closed, peer_gone, mainpc, idlepc>>

\* _handle_client, lines 130-133: the next line of the buffer is processed
NextLine(c) ==
    /\ pc[c] = "next_line"
    /\ LET r == Dispatch(c, FirstLine(loc[c].buffer)) IN
        /\ pc' = [pc EXCEPT ![c] = r.pc]
        /\ loc' = [loc EXCEPT ![c] = [r.loc EXCEPT !.buffer = RestLines(loc[c].buffer),
                                                   !.chunk = loc[c].chunk,
                                                   !.answers = loc[c].answers]]
        /\ out' = [out EXCEPT ![c] = r.out]
    /\ UNCHANGED codec
    /\ UNCHANGED <<running, last_activity, now, clients, channels, lock, sem, port,
                   sock_closed, peer_gone, mainpc, idlepc>>

\* _handle_nick, lines 190-191
NickTaken(cl, c, nickname) ==
    \E o \in DOMAIN cl : o # c /\ cl[o].nickname = nickname

\* _handle_nick, lines 189-200.  A session that shutdown has removed makes
\* line 196 raise KeyError, which ends the read loop (line 138).
HandleNick(c) ==
    /\ pc[c] = "nick_lock"
    /\ lock = NoHolder
    /\ IF NickTaken(clients, c, loc[c].nickname)
       THEN /\ out' = [out EXCEPT ![c] =
                          SendError(out[c], c, "nick", "Nickname already in use", TRUE)]
            /\ pc' = [pc EXCEPT ![c] = "cmd_done"]
            /\ UNCHANGED clients
       ELSE IF c \notin DOMAIN clients
       THEN /\ pc' = [pc EXCEPT ![c] = "disconnect"]
            /\ UNCHANGED <<clients, out>>
       ELSE /\ clients' = [clients EXCEPT ![c].nickname = loc[c].nickname]
            /\ out' = [out EXCEPT ![c] =
                          Send(out[c], c, resp_ok("nick", [nickname |-> loc[c].nickname]),
                               FALSE)]
            /\ pc' = [pc EXCEPT ![c] = "cmd_done"]
    /\ UNCHANGED codec
    /\ UNCHANGED <<running, last_activity, now, channels, lock, sem, port,
                   sock_closed, peer_gone, loc, mainpc, idlepc>>

\* Faulty variant of Listing: every channel is reported with one user.
Listing_One(chs) == {[name |-> ch, users |-> 1] : ch \in DOMAIN chs}

\* _handle_list, lines 204-210
Listing(chs) == {[name |-> ch, users |-> Cardinality(chs[ch])] : ch \in DOMAIN chs}

\* _handle_list, lines 204-213
HandleList(c) ==
    /\ pc[c] = "list_lock"
    /\ lock = NoHolder
    /\ out' = [out EXCEPT ![c] =
                  Send(out[c], c, resp_list_channels(Listing(channels)), FALSE)]
    /\ pc' = [pc EXCEPT ![c] = "cmd_done"]
    /\ UNCHANGED codec
    /\ UNCHANGED <<running, last_activity, now, clients, channels, lock, sem, port,
                   sock_closed, peer_gone, loc, mainpc, idlepc>>

MembersOf(chs, ch) == IF ch \in DOMAIN chs THEN chs[ch] ELSE {}

\* _handle_join, lines 226-230
JoinMembers(chs, ch, c) == Put(chs, ch, MembersOf(chs, ch) \cup {c})

\* Faulty variant of JoinExclude: the joining session is not excluded.
JoinExclude_None(c) == NoConn

\* _handle_join, line 243: the exclude argument of the broadcast
JoinExclude(c) == c

\* _handle_join, lines 224-243, up to the call of _broadcast_to_channel.
\* loc.before keeps the members the channel had when the lock was taken.  A
\* session that shutdown has removed makes line 231 raise KeyError after
\* line 230 has run.
HandleJoin(c) ==
    /\ pc[c] = "join_lock"
    /\ lock = NoHolder
    /\ channels' = JoinMembers(channels, loc[c].channel, c)
    /\ IF c \notin DOMAIN clients
       THEN /\ pc' = [pc EXCEPT ![c] = "disconnect"]
            /\ UNCHANGED <<clients, loc, out>>
       ELSE /\ clients' = [clients EXCEPT ![c].channels = @ \cup {loc[c].channel}]
            /\ loc' = [loc EXCEPT ![c].nickname = clients[c].nickname,
                                  ![c].before = MembersOf(channels, loc[c].channel),
                                  ![c].exclude = JoinExclude(c)]
            /\ out' = [out EXCEPT ![c] =
                          Send(out[c], c, resp_ok("join", [channel |-> loc[c].channel]),
                               FALSE)]
            /\ pc' = [pc EXCEPT ![c] = "join_bcast"]
    /\ UNCHANGED codec
    /\ UNCHANGED <<running, last_activity, now, lock, sem, port, sock_closed, peer_gone,
                   mainpc, idlepc>>

\* Faulty variant of LeaveMembers: an emptied channel is kept.
LeaveMembers_KeepEmpty(chs, ch, c) == [chs EXCEPT ![ch] = @ \ {c}]

\* Faulty variant of LeaveMembers: the session is not taken out of the channel.
LeaveMembers_NoDiscard(chs, ch, c) == chs

\* _handle_leave, lines 262-267
LeaveMembers(chs, ch, c) ==
    IF chs[ch] \ {c} = {} THEN Del(chs, ch) ELSE [chs EXCEPT ![ch] = @ \ {c}]

\* Faulty variant of Chosen: the channel argument is ignored.
Chosen_Any(channel, client_channels) == client_channels

\* _handle_leave and _handle_msg, lines 253-255 and 297-299: the channels an
\* absent channel argument can stand for (the first element of the session's
\* set, in whatever order the set iterates)
Chosen(channel, client_channels) ==
    IF Falsy(channel) THEN client_channels ELSE {channel}

\* _handle_leave, lines 249-282, up to the call of _broadcast_to_channel.
\* loc.before keeps the members left in the channel when the lock is released.
\* A channel argument that cannot be hashed makes line 261 raise TypeError.
HandleLeave(c) ==
    /\ pc[c] = "leave_lock"
    /\ lock = NoHolder
    /\ IF c \notin DOMAIN clients
       THEN /\ pc' = [pc EXCEPT ![c] = "disconnect"]
            /\ UNCHANGED <<clients, channels, loc, out>>
       ELSE IF Falsy(loc[c].channel) /\ clients[c].channels = {}
       THEN /\ out' = [out EXCEPT ![c] =
                          SendError(out[c], c, "leave", "Not in any channel", TRUE)]
            /\ pc' = [pc EXCEPT ![c] = "cmd_done"]
            /\ UNCHANGED <<clients, channels, loc>>
       ELSE IF loc[c].channel = Unhashable
       THEN /\ pc' = [pc EXCEPT ![c] = "disconnect"]
            /\ UNCHANGED <<clients, channels, loc, out>>
       ELSE \E ch \in Chosen(loc[c].channel, clients[c].channels) :
            IF ch \notin clients[c].channels
            THEN /\ out' = [out EXCEPT ![c] =
                               SendError(out[c], c, "leave", "Not in that channel", TRUE)]
                 /\ pc' = [pc EXCEPT ![c] = "cmd_done"]
                 /\ UNCHANGED <<clients, channels, loc>>
            ELSE IF ch \notin DOMAIN channels
            THEN /\ pc' = [pc EXCEPT ![c] = "disconnect"]
                 /\ UNCHANGED <<clients, channels, loc, out>>
            ELSE /\ channels' = LeaveMembers(channels, ch, c)
                 /\ clients' = [clients EXCEPT ![c].channels = @ \ {ch}]
                 /\ loc' = [loc EXCEPT ![c].channel = ch,
                                       ![c].nickname = clients[c].nickname,
                                       ![c].before = channels[ch] \ {c},
                                       ![c].exclude = NoConn]
                 /\ out' = [out EXCEPT ![c] =
                               Send(out[c], c, resp_ok("leave", [channel |-> ch]), FALSE)]
                 /\ pc' = [pc EXCEPT ![c] = "leave_bcast"]
    /\ UNCHANGED codec
    /\ UNCHANGED <<running, last_activity, now, lock, sem, port, sock_closed, peer_gone,
                   mainpc, idlepc>>

\* Faulty variant of InChannel: every session passes for a member.
InChannel_Any(client_channels, ch) == TRUE

\* _handle_msg, line 305: the membership test
InChannel(client_channels, ch) == ch \in client_channels

\* _handle_msg, line 313: the exclude argument of the broadcast
MsgExclude(c) == NoConn

\* _handle_msg, lines 292-313, up to the call of _broadcast_to_channel.  A
\* channel argument that cannot be hashed makes line 305 raise TypeError.
HandleMsg(c) ==
    /\ pc[c] = "msg_lock"
    /\ lock = NoHolder
    /\ IF c \notin DOMAIN clients
       THEN /\ pc' = [pc EXCEPT ![c] = "disconnect"]
            /\ UNCHANGED <<loc, out>>
       ELSE IF Falsy(loc[c].channel) /\ clients[c].channels = {}
       THEN /\ out' = [out EXCEPT ![c] =
                          SendError(out[c], c, "msg", "Not in any channel", TRUE)]
            /\ pc' = [pc EXCEPT ![c] = "cmd_done"]
            /\ UNCHANGED loc
       ELSE IF loc[c].channel = Unhashable
       THEN /\ pc' = [pc EXCEPT ![c] = "disconnect"]
            /\ UNCHANGED <<loc, out>>
       ELSE \E ch \in Chosen(loc[c].channel, clients[c].channels) :
            IF ~InChannel(clients[c].channels, ch)
            THEN /\ out' = [out EXCEPT ![c] =
                               SendError(out[c], c, "msg", "Not in that channel", TRUE)]
                 /\ pc' = [pc EXCEPT ![c] = "cmd_done"]
                 /\ UNCHANGED loc
            ELSE /\ loc' = [loc EXCEPT ![c].channel = ch,
                                       ![c].nickname = clients[c].nickname,
                                       ![c].before = MembersOf(channels, ch),
                                       ![c].exclude = MsgExclude(c)]
                 /\ pc' = [pc EXCEPT ![c] = "msg_bcast"]
                 /\ UNCHANGED out
    /\ UNCHANGED codec
    /\ UNCHANGED <<running, last_activity, now, clients, channels, lock, sem, port,
                   sock_closed, peer_gone, mainpc, idlepc>>

\* The event each caller of _broadcast_to_channel passes (lines 242, 281, 312, 374)
EventOf(c) ==
    IF pc[c] = "join_bcast" THEN evt_user_joined(loc[c].channel, loc[c].nickname)
    ELSE IF pc[c] = "msg_bcast"
    THEN evt_message(loc[c].channel, loc[c].nickname, loc[c].text, now)
    ELSE evt_user_left(loc[c].channel, loc[c].nickname)

\* Faulty variant of Recipients: the exclude argument is ignored.
Recipients_NoExclude(chs, ch, exclude) == MembersOf(chs, ch)

\* _broadcast_to_channel, lines 356-358: who is written to
Recipients(chs, ch, exclude) == MembersOf(chs, ch) \ {exclude}

BroadcastPcs == {"join_bcast", "leave_bcast", "msg_bcast", "disc_bcast"}

\* threading.Lock.acquire: client_lock is not reentrant
CanAcquire(holder, t) == holder = NoHolder

\* _broadcast_to_channel, lines 355-359, and the return to its caller.  The
\* caller _disconnect_client goes on at lines 377-379 with client_lock held.
BroadcastToChannel(c) ==
    /\ pc[c] \in BroadcastPcs
    /\ CanAcquire(lock, c)
    /\ \E order \in Orders(Recipients(channels, loc[c].channel, loc[c].exclude)) :
           out' = [out EXCEPT ![c] = SendEach(out[c], order, EventOf(c), TRUE)]
    /\ IF pc[c] = "disc_bcast"
       THEN /\ channels' = IF channels[loc[c].channel] = {}
                           THEN Del(channels, loc[c].channel) ELSE channels
            /\ pc' = [pc EXCEPT ![c] = "disc_loop"]
       ELSE /\ pc' = [pc EXCEPT ![c] = "cmd_done"]
            /\ UNCHANGED channels
    /\ UNCHANGED codec
    /\ UNCHANGED <<running, last_activity, now, clients, lock, sem, port,
                   sock_closed, peer_gone, loc, mainpc, idlepc>>

\* _disconnect_client, lines 363-366: client_lock is taken and kept
DisconnectClient(c) ==
    /\ pc[c] = "disconnect"
    /\ lock = NoHolder
    /\ lock' = c
    /\ loc' = [loc EXCEPT ![c] =
                  IF c \in DOMAIN clients
                  THEN [NoLocals EXCEPT !.cmd = "disconnect",
                                        !.nickname = clients[c].nickname,
                                        !.todo = clients[c].channels]
                  ELSE [NoLocals EXCEPT !.cmd = "disconnect"]]
    /\ out' = [out EXCEPT ![c] = <<>>]
    /\ pc' = [pc EXCEPT ![c] = "disc_loop"]
    /\ UNCHANGED codec
    /\ UNCHANGED <<running, last_activity, now, clients, channels, sem, port,
                   sock_closed, peer_gone, mainpc, idlepc>>

\* _disconnect_client, lines 369-371 for the next channel of the session, up
\* to the call of _broadcast_to_channel at line 375; and, with no channel
\* left, lines 382-388 and _handle_client, line 145.
DisconnectLoop(c) ==
    /\ pc[c] = "disc_loop"
    /\ lock = c
    /\ IF loc[c].todo = {}
       THEN /\ clients' = Del(clients, c)
            /\ lock' = NoHolder
            /\ sock_closed' = [sock_closed EXCEPT ![c] = TRUE]
            /\ sem' = sem + 1
            /\ pc' = [pc EXCEPT ![c] = "closed"]
            /\ loc' = [loc EXCEPT ![c] = NoLocals]
            /\ UNCHANGED channels
       ELSE \E ch \in loc[c].todo :
            /\ loc' = [loc EXCEPT ![c].todo = @ \ {ch}, ![c].channel = ch]
            /\ IF ch \in DOMAIN channels
               THEN /\ channels' = [channels EXCEPT ![ch] = @ \ {c}]
                    /\ pc' = [pc EXCEPT ![c] = "disc_bcast"]
               ELSE UNCHANGED <<channels, pc>>
            /\ UNCHANGED <<clients, lock, sock_closed, peer_gone, sem>>
    /\ UNCHANGED codec
    /\ UNCHANGED <<running, last_activity, now, port, peer_gone, out, mainpc, idlepc>>

\* ----------------------------------------------------------- specifications
WithChannel(d, ch) == IF ch = None THEN d ELSE d @@ [channel |-> ch]

\* The steps of connection c's handler thread.
Session(c) ==
    \/ AcquireSlot(c) \/ Register(c) \/ HandlerLoop(c) \/ FinishCommand(c)
    \/ DisconnectClient(c) \/ DisconnectLoop(c)

ChannelCommands(c) ==
    \/ HandleList(c) \/ HandleJoin(c) \/ HandleLeave(c) \/ HandleMsg(c)
    \/ BroadcastToChannel(c)

\* What the peer of connection c does.
ChannelFrames(c) ==
    \/ ConnectionLost(c)
    \/ \E ch \in JoinInputs : ReadFrame(c, CmdLine("join", [channel |-> ch]))
    \/ \E ch \in ChannelArgs : ReadFrame(c, CmdLine("leave", WithChannel(EmptyDict, ch)))
    \/ \E t \in TextInputs, ch \in ChannelArgs :
           ReadFrame(c, CmdLine("msg", WithChannel([text |-> t], ch)))
    \/ ReadFrame(c, CmdLine("list", EmptyDict))

NickFrames(c) ==
    \/ ConnectionLost(c)
    \/ \E n \in NickInputs : ReadFrame(c, CmdLine("nick", [nickname |-> n]))

\* Channels: every connection comes from a port of its own and keeps its
\* default nickname; the clock stays within the idle timeout.
Next ==
    \/ ShutdownBegin
    \/ ShutdownClear
    \/ IdleExit
    \/ IdleWake
    \/ IdleCheck
    \/ \E c \in Chatters : Accept(c, c) \/ Session(c) \/ ChannelCommands(c) \/ ChannelFrames(c)

Spec == Init /\ [][Next]_vars

\* _handle_client, lines 122 and 138-140: recv on a connection that the peer
\* has reset raises
RecvFails(c) == peer_gone[c] /\ ConnectionLost(c)

\* The server while it is left running: no Ctrl-C.  Every thread that can
\* take a step eventually takes one, and a recv that must fail does; the
\* peers are under no obligation.  (RecvFails matters where peers reset.)
ServingNext ==
    \/ IdleWake
    \/ IdleCheck
    \/ \E c \in Chatters : Accept(c, c) \/ Session(c) \/ ChannelCommands(c) \/ ChannelFrames(c)

FairSpec ==
    /\ Init /\ [][ServingNext]_vars
    /\ WF_vars(IdleWake \/ IdleCheck)
    /\ \A c \in Chatters : WF_vars(Session(c) \/ ChannelCommands(c))

\* Resets: the peers join a channel, and reset their connections at any time.
ResetNext ==
    \E c \in Chatters :
        \/ Accept(c, c) \/ Session(c) \/ HandleJoin(c) \/ BroadcastToChannel(c)
        \/ ConnectionLost(c) \/ PeerReset(c)
        \/ ReadFrame(c, CmdLine("join", [channel |-> ChanA]))

ResetFairSpec ==
    /\ Init /\ [][ResetNext]_vars
    /\ \A c \in Chatters :
           WF_vars(Session(c) \/ HandleJoin(c) \/ BroadcastToChannel(c) \/ RecvFails(c))

\* The server with Ctrl-C, every thread taking the steps it can take.
StopFairSpec ==
    /\ Spec
    /\ WF_vars(ShutdownClear)
    /\ WF_vars(IdleWake \/ IdleCheck \/ IdleExit)
    /\ \A c \in Chatters : WF_vars(Session(c) \/ ChannelCommands(c))

\* Nicknames: connections come from any port and send nick commands only.
NickNext ==
    \/ ShutdownBegin
    \/ ShutdownClear
    \/ \E c \in Chatters : \/ \E p \in Ports : Accept(c, p)
                        \/ Session(c) \/ HandleNick(c) \/ NickFrames(c)

NickSpec == Init /\ [][NickNext]_vars

\* The pool: every connection is offered; the peers connect and go away, and
\* those of Joiners can join a channel first.
PoolNext ==
    \/ \E c \in Conns : Accept(c, c) \/ Session(c) \/ ConnectionLost(c)
    \/ \E c \in Joiners : \/ ReadFrame(c, CmdLine("join", [channel |-> ChanA]))
                          \/ HandleJoin(c)
                          \/ BroadcastToChannel(c)

PoolSpec == Init /\ [][PoolNext]_vars

PoolFairSpec ==
    /\ PoolSpec
    /\ \A c \in Conns : WF_vars(Session(c) \/ HandleJoin(c) \/ BroadcastToChannel(c))

\* The clock: time passes, connections come, send list commands and go.
ClockNext ==
    \/ Tick
    \/ ShutdownBegin
    \/ ShutdownClear
    \/ IdleExit
    \/ IdleWake
    \/ IdleCheck
    \/ IdleStop
    \/ \E c \in Chatters : \/ Accept(c, c) \/ Session(c) \/ ConnectionLost(c)
                           \/ ReadFrame(c, CmdLine("list", EmptyDict))
                           \/ HandleList(c)

ClockSpec == Init /\ [][ClockNext]_vars

\* Frames: what a peer can send that the server rejects, and quit and help.
\* No session joins a channel.
NoTypeFrame == JDict([name |-> Word("join"), data |-> JDict(EmptyMap)])
NoNameFrame == JDict([type |-> Word(COMMAND), data |-> JDict(EmptyMap)])
BadTypeFrame ==
    JDict([type |-> Word("request"), name |-> Word("join"), data |-> JDict(EmptyMap)])
UndecodableFrames == {NotJson, NoTypeFrame, NoNameFrame, BadTypeFrame}
NotCommandFrames == {to_dict(PyMessage(Message(EVENT, "message", EmptyDict)))}
UnknownNameFrames == {CmdLine("dance", EmptyDict)}
BadNickFrames == {CmdLine("nick", [nickname |-> <<"b", "o", "b", "!">>]),
                  CmdLine("nick", EmptyDict)}
BadJoinFrames == {CmdLine("join", [channel |-> <<"a">>]),
                  CmdLine("join", [channel |-> <<"#">>]),
                  CmdLine("join", EmptyDict)}
RejectedFrames ==
    UndecodableFrames \cup NotCommandFrames \cup UnknownNameFrames
        \cup BadNickFrames \cup BadJoinFrames

OtherFrames(c) ==
    \/ ConnectionLost(c)
    \/ \E line \in RejectedFrames : ReadFrame(c, line)
    \/ ReadFrame(c, CmdLine("quit", EmptyDict))
    \/ ReadFrame(c, CmdLine("help", EmptyDict))
    \/ ReadFrame(c, CmdLine("nick", [nickname |-> NickBob]))
    \/ \E ch \in {None, ChanB} : ReadFrame(c, CmdLine("leave", WithChannel(EmptyDict, ch)))
    \/ \E ch \in {None, ChanB} :
           ReadFrame(c, CmdLine("msg", WithChannel([text |-> TextHi], ch)))

FrameNext ==
    \E c \in Chatters :
        \/ Accept(c, c) \/ Session(c) \/ HandleNick(c) \/ HandleLeave(c) \/ HandleMsg(c)
        \/ OtherFrames(c)

FrameSpec == Init /\ [][FrameNext]_vars

\* Formats: the peers send nick and join commands whose argument is well
\* formed, malformed, or well formed once the blanks around it are removed.
Blank == <<" ">>
LongNick == [i \in 1..(MaxNickLen + 1) |-> "a"]
FullNick == [i \in 1..MaxNickLen |-> "a"]
NickFormatInputs ==
    {NickBob, Blank \o NickBob, FullNick, FullNick \o Blank, LongNick,
     <<"b", "o", "b", "!">>, <<"b", " ", "b">>, EmptyStr, Blank}
JoinFormatInputs ==
    {ChanA, Blank \o ChanA, ChanA \o Blank, <<"a">>, <<"a", "a">>, <<"#">>,
     <<"#">> \o Blank, EmptyStr, Blank}

FormatFrames(c) ==
    \/ ConnectionLost(c)
    \/ \E n \in NickFormatInputs : ReadFrame(c, CmdLine("nick", [nickname |-> n]))
    \/ ReadFrame(c, CmdLine("nick", EmptyDict))
    \/ \E ch \in JoinFormatInputs : ReadFrame(c, CmdLine("join", [channel |-> ch]))
    \/ ReadFrame(c, CmdLine("join", EmptyDict))

FormatNext ==
    \E c \in Chatters :
        \/ Accept(c, c) \/ Session(c) \/ HandleNick(c) \/ HandleJoin(c)
        \/ BroadcastToChannel(c) \/ FormatFrames(c)

FormatSpec == Init /\ [][FormatNext]_vars

\* Messages: the peers join channels and send msg commands, with a text,
\* with an empty or blank text, with and without a channel.
MsgTexts == {TextHi, EmptyStr, Blank}

MsgFrames(c) ==
    \/ ConnectionLost(c)
    \/ \E ch \in JoinInputs : ReadFrame(c, CmdLine("join", [channel |-> ch]))
    \/ \E t \in MsgTexts, ch \in ChannelArgs :
           ReadFrame(c, CmdLine("msg", WithChannel([text |-> t], ch)))

MsgNext ==
    \E c \in Chatters :
        \/ Accept(c, c) \/ Session(c) \/ HandleJoin(c) \/ HandleMsg(c)
        \/ BroadcastToChannel(c) \/ MsgFrames(c)

MsgSpec == Init /\ [][MsgNext]_vars

\* Types: the peers send commands that decode, with a payload of the wrong
\* type: data that is no dict, or a nickname, channel or text that is no
\* str.  A session can join #a first.
RawCmd(name, data) == JDict([type |-> Word(COMMAND), name |-> Word(name), data |-> data])
NotADict == {JNum(5), JStr(ChanA), JList(<<JStr(ChanA)>>), JBool(TRUE)}
NotAStr == {JNum(5), JList(<<JStr(ChanA)>>), JBool(TRUE)}
WronglyTypedFrames ==
    {RawCmd(name, d) : name \in {"nick", "join", "leave", "msg", "quit"}, d \in NotADict}
        \cup {RawCmd("nick", JDict([nickname |-> v])) : v \in NotAStr \cup {JNull}}
        \cup {RawCmd("join", JDict([channel |-> v])) : v \in NotAStr \cup {JNull}}
        \cup {RawCmd("leave", JDict([channel |-> v])) : v \in NotAStr}
        \cup {RawCmd("msg", JDict([text |-> v])) : v \in NotAStr \cup {JNull}}
        \cup {RawCmd("msg", JDict([text |-> JStr(TextHi), channel |-> v])) : v \in NotAStr}

TypedFrames(c) ==
    \/ ConnectionLost(c)
    \/ ReadFrame(c, CmdLine("join", [channel |-> ChanA]))
    \/ \E line \in WronglyTypedFrames : ReadFrame(c, line)

TypedNext ==
    \E c \in Chatters :
        \/ Accept(c, c) \/ Session(c) \/ HandleJoin(c) \/ HandleLeave(c) \/ HandleMsg(c)
        \/ BroadcastToChannel(c) \/ TypedFrames(c)

TypedSpec == Init /\ [][TypedNext]_vars

\* The codec: a message built by a constructor of the catalog is encoded
\* and the line decoded; a line a peer has written is decoded.  A line of a
\* peer is the JSON text of a value, alone or with blanks around it, or a
\* text that is no JSON.
CodecStrings == {NickBob, ChanA, <<"h", "\n", "i">>, <<"\"">>, <<"\\", "n">>, EmptyStr}
CodecPorts == {0, 6667}
CodecTimes == {0, TickStep}

CatalogMessages ==
    {cmd_connect("localhost", p) : p \in CodecPorts}
        \cup {cmd_nick(x) : x \in CodecStrings \cup {None}}
        \cup {cmd_list, cmd_help}
        \cup {cmd_join(x) : x \in CodecStrings}
        \cup {cmd_leave(x) : x \in CodecStrings \cup {None}}
        \cup {cmd_quit(r) : r \in {NoText, "bye"}}
        \cup {cmd_msg(x, ch) : x \in CodecStrings, ch \in {None, ChanA}}
        \cup {resp_ok(n, EmptyDict) : n \in {"quit", "nick"}}
        \cup {resp_ok("nick", [nickname |-> x]) : x \in CodecStrings}
        \cup {resp_error(n, e) : n \in {"nick", "unknown"},
                                 e \in {"Invalid nickname format", "Unknown command"}}
        \cup {resp_connected("ChatServer", Str(1), motd) :
                 motd \in {NoText, "Welcome to the chat server!"}}
        \cup {resp_list_channels(l) :
                 l \in {{}, {[name |-> ChanA, users |-> 1]},
                        {[name |-> ChanA, users |-> 2], [name |-> ChanB, users |-> 10]}}}
        \cup {resp_help("/help - Show this help message")}
        \cup {evt_message(ChanA, NickBob, x, ts) : x \in CodecStrings, ts \in CodecTimes}
        \cup {evt_user_joined(ChanA, n) : n \in {NickBob, DefaultNick(1)}}
        \cup {evt_user_left(ChanA, n) : n \in {NickBob, DefaultNick(1)}}
        \cup {evt_server_shutdown(r) : r \in {NoText, "Server shutting down"}}

\* The values a peer writes as JSON text.
PayloadValues ==
    {JNull, JNum(0), JNum(5), JStr(EmptyStr), JStr(TextHi), JList(<<>>), JBool(FALSE),
     JDict(EmptyMap), JDict([channel |-> JStr(ChanA)])}
PeerValues ==
    {JDict([type |-> Word(k), name |-> Word("join")]) : k \in MessageType}
        \cup {RawCmd("join", d) : d \in PayloadValues}
        \cup {NoTypeFrame, NoNameFrame, BadTypeFrame, JDict(EmptyMap),
              JDict([type |-> JNum(1), name |-> Word("join")]),
              JDict([type |-> JNull, name |-> Word("join")]),
              JDict([type |-> Word(EVENT), name |-> JNull]),
              JDict([type |-> Word(EVENT), name |-> JNum(5)]),
              JNum(5), JStr(TextHi), JList(<<JNum(1)>>), JList(<<>>), JNull, JBool(TRUE)}
Stray == <<"x">>
NotJsonLines ==
    {<<>>, <<" ">>, <<"{">>, <<"h", "i">>, <<"\"", "a">>, <<"\"", "\n", "\"">>,
     <<"\"", "\\", "x", "\"">>, <<"0", "1">>, <<"[", "1", ",", "]">>,
     <<"{", "\"", "type", "\"", "}">>, <<"{", "\"", "type", "\"", ":", "1", ",", "}">>,
     <<"{", "1", ":", "1", "}">>, <<"n", "u", "l">>}
        \cup {json_dumps(v) \o Stray : v \in {NoTypeFrame, JNum(5)}}

Built(m) == [stage |-> "built", src |-> "catalog", m |-> m, line |-> <<>>, result |-> JNull]
Received(v, line) ==
    [stage |-> "received", src |-> "peer", m |-> v, line |-> line, result |-> JNull]

CodecInit ==
    /\ ServerInit
    /\ codec \in {Built(PyMessage(m)) : m \in CatalogMessages}
                   \cup {Received(v, json_dumps(v)) : v \in PeerValues}
                   \cup {Received(v, <<" ">> \o json_dumps(v) \o <<" ", "\n">>) :
                            v \in PeerValues}
                   \cup {Received(NotJson, line) : line \in NotJsonLines}

\* Protocol.encode is applied to the message
EncodeStep ==
    /\ codec.stage = "built"
    /\ codec' = [codec EXCEPT !.stage = "encoded", !.line = encode(codec.m)]
    /\ UNCHANGED server_vars

\* Protocol.decode is applied to the line
DecodeStep ==
    /\ codec.stage \in {"encoded", "received"}
    /\ codec' = [codec EXCEPT !.stage = "decoded", !.result = decode(codec.line)]
    /\ UNCHANGED server_vars

CodecNext == EncodeStep \/ DecodeStep

CodecSpec == CodecInit /\ [][CodecNext]_vars

\* Order: one recv brings up to MaxChunk lines: list, help, an unknown
\* command and a line that is no JSON, in any order.
OrderLines == {CmdLine("list", EmptyDict), CmdLine("help", EmptyDict),
               CmdLine("dance", EmptyDict), NotJson}
Chunks == UNION {[1..n -> OrderLines] : n \in 2..MaxChunk}

OrderFrames(c) ==
    \/ ConnectionLost(c)
    \/ \E lines \in Chunks : RecvLines(c, lines)

OrderNext ==
    \E c \in Chatters :
        \/ Accept(c, c) \/ Session(c) \/ HandleList(c) \/ NextLine(c) \/ OrderFrames(c)

OrderSpec == Init /\ [][OrderNext]_vars

\* ------------------------------------------------------------------ claims
\* The writes thread t adds in a step.
Added(t) == SubSeq(out'[t], Len(out[t]) + 1, Len(out'[t]))

\* How many of the writes o carry message m to session s.
Copies(o, s, m) == Cardinality({i \in DOMAIN o : o[i].to = s /\ o[i].msg = m})

\* How many of the writes o carry an event named name to session s.
Events(o, s, name) ==
    Cardinality({i \in DOMAIN o : o[i].to = s /\ o[i].msg.type = EVENT
                                   /\ o[i].msg.name = name})

\* C1: when the read loop of a session that is in two channels, each with
\* another member, has ended, the cleanup runs to completion: the handler
\* finishes and the session is in neither registry.
C1_DisconnectCompletes ==
    \A c \in Conns :
        (/\ pc[c] = "disconnect"
         /\ c \in DOMAIN clients
         /\ clients[c].channels = {ChanA, ChanB}
         /\ \A ch \in {ChanA, ChanB} : ch \in DOMAIN channels /\ channels[ch] # {c})
        ~> (/\ pc[c] = "closed"
            /\ c \notin DOMAIN clients
            /\ \A ch \in DOMAIN channels : c \notin channels[ch])

\* C2: no thread asks for client_lock while it is the thread that holds it.
C2_NoSelfAcquire ==
    \A c \in Conns : ~(pc[c] \in BroadcastPcs /\ lock = c)

\* C3: a list command that a connection has sent while the handler of
\* another connection is cleaning up after the loss of its connection is
\* eventually answered.
C3_OthersStillServed ==
    \A y \in Conns :
        (/\ pc[y] = "list_lock"
         /\ \E x \in Conns \ {y} : pc[x] \in {"disconnect", "disc_loop", "disc_bcast"})
        ~> (pc[y] = "cmd_done")

\* C4: when the sender and at least one other session are members of the
\* channel, the broadcast of a msg command writes exactly one message event,
\* with the channel, the sender's nickname and the text, to every other
\* member, and none to the sender.
C4_MsgNotEchoed ==
    [][\A a \in Conns :
         (/\ pc[a] = "msg_bcast" /\ pc'[a] = "cmd_done"
          /\ a \in DOMAIN clients
          /\ a \in MembersOf(channels, loc[a].channel)
          /\ MembersOf(channels, loc[a].channel) # {a}) =>
            /\ \A b \in MembersOf(channels, loc[a].channel) \ {a} :
                   /\ Events(Added(a), b, "message") = 1
                   /\ Copies(Added(a), b, evt_message(loc[a].channel, clients[a].nickname,
                                                      TextHi, now)) = 1
            /\ Events(Added(a), a, "message") = 0]_vars

\* C5: a broadcast writes its message exactly once to every session that is
\* a member of the channel when it runs, except the excluded one, and to no
\* other session.
C5_BroadcastRecipients ==
    [][\A c \in Conns :
         (pc[c] \in BroadcastPcs /\ pc'[c] # pc[c]) =>
            /\ \A i \in DOMAIN Added(c) : Added(c)[i].msg = EventOf(c)
            /\ \A s \in Conns :
                   Copies(Added(c), s, EventOf(c)) =
                       IF /\ loc[c].channel \in DOMAIN channels
                          /\ s \in channels[loc[c].channel]
                          /\ s # loc[c].exclude
                       THEN 1 ELSE 0]_vars

\* C5 witness: a join's broadcast, which excludes the joining session, has
\* reached another member of the channel.
C5_Witness ==
    \E c \in Conns :
        /\ pc[c] = "cmd_done" /\ loc[c].cmd = "join" /\ loc[c].exclude = c
        /\ \E s \in Conns \ {c} : Events(out[c], s, "user_joined") = 1

\* C6: whenever client_lock is free, no channel of the registry has an empty
\* member set.
C6_NoEmptyChannel ==
    lock = NoHolder => \A ch \in DOMAIN channels : channels[ch] # {}

\* C6 witness: the last member of a channel has left it and the channel is
\* gone from the registry.
C6_Witness ==
    \E c \in Conns :
        /\ pc[c] = "leave_bcast" /\ loc[c].before = {}
        /\ loc[c].channel \notin DOMAIN channels
        /\ lock = NoHolder

\* C7: a nickname that differs from its holder's default nickname, and so was
\* set with nick, is held by no other registered session.
C7_SetNickUnique ==
    \A a \in DOMAIN clients : \A b \in DOMAIN clients \ {a} :
        clients[a].nickname # DefaultNick(port[a]) =>
            clients[b].nickname # clients[a].nickname

\* C8: a join of a channel the session is already a member of leaves both
\* registries as they are, is answered ok, and its broadcast writes no
\* user_joined event to anybody.
C8_RejoinIdempotent ==
    [][\A c \in Conns :
         /\ (/\ pc[c] = "join_lock" /\ pc'[c] = "join_bcast"
             /\ c \in MembersOf(channels, loc[c].channel)) =>
                /\ channels' = channels
                /\ clients' = clients
                /\ \A i \in DOMAIN out'[c] :
                       out'[c][i].msg = resp_ok("join", [channel |-> loc[c].channel])
                /\ Len(out'[c]) = 1
         /\ (/\ pc[c] = "join_bcast" /\ pc'[c] = "cmd_done"
             /\ c \in loc[c].before) =>
                \A s \in Conns : Events(Added(c), s, "user_joined") = 0]_vars

\* C9, as claimed: once a join by a session that was not a member is done,
\* with no shutdown under way, the user_joined event has gone exactly once to
\* each session that was a member before the join, and to nobody else.
C9_PriorMembersNotified ==
    \A c \in Conns :
        (/\ pc[c] = "cmd_done" /\ loc[c].cmd = "join" /\ loc[c].exclude = c
         /\ c \notin loc[c].before
         /\ mainpc = "accept") =>
            \A s \in Conns :
                Events(out[c], s, "user_joined") = IF s \in loc[c].before THEN 1 ELSE 0

\* C9, amended: a join by a registered session that is not a member adds it
\* to the channel (created if absent) and to nothing else, and writes it one
\* ok response carrying the channel; the broadcast that follows writes one
\* user_joined event naming it to exactly the sessions that are members of
\* the channel when the broadcast runs, other than the joining session.
C9_JoinNotifiesCurrentMembers ==
    [][\A c \in Conns :
         /\ (/\ pc[c] = "join_lock" /\ pc'[c] = "join_bcast"
             /\ c \notin MembersOf(channels, loc[c].channel)) =>
                /\ DOMAIN channels' = DOMAIN channels \cup {loc[c].channel}
                /\ \A ch \in DOMAIN channels' :
                       channels'[ch] = IF ch = loc[c].channel
                                       THEN MembersOf(channels, ch) \cup {c}
                                       ELSE channels[ch]
                /\ clients' = [clients EXCEPT ![c].channels = @ \cup {loc[c].channel}]
                /\ Len(out'[c]) = 1
                /\ out'[c][1].to = c
                /\ out'[c][1].msg = resp_ok("join", [channel |-> loc[c].channel])
                /\ loc'[c].nickname = clients[c].nickname
         /\ (/\ pc[c] = "join_bcast" /\ pc'[c] = "cmd_done"
             /\ c \notin loc[c].before) =>
                /\ \A s \in Conns :
                       Copies(Added(c), s,
                              evt_user_joined(loc[c].channel, loc[c].nickname)) =
                           IF s \in MembersOf(channels, loc[c].channel) \ {c}
                           THEN 1 ELSE 0
                /\ Len(Added(c)) = Cardinality(MembersOf(channels, loc[c].channel) \ {c})]_vars

\* C9 witness: a join by a session that was not a member is done and a
\* session that was a member before has been written the user_joined event.
C9_Witness ==
    \E c \in Conns :
        /\ pc[c] = "cmd_done" /\ loc[c].cmd = "join" /\ loc[c].exclude = c
        /\ c \notin loc[c].before
        /\ \E s \in loc[c].before : Events(out[c], s, "user_joined") = 1

C13_NoWriteUnderLock ==
    \A t \in Conns \cup {Main} : \A i \in DOMAIN out[t] : ~out[t][i].locked

\* C15: once shutdown has cleared the registries and every handler thread
\* has ended, clients and channels are both empty.
C15_NoStaleState ==
    (mainpc = "done" /\ \A c \in Conns : pc[c] \in {"idle", "closed"}) =>
        (DOMAIN clients = {} /\ DOMAIN channels = {})

\* C11: the read loop of a connection ends once a quit command of that
\* connection has been processed.
C11_QuitEndsReadLoop ==
    [][\A c \in Conns :
         (pc[c] = "cmd_done" /\ loc[c].cmd = "quit" /\ pc'[c] # pc[c]) =>
            pc'[c] = "disconnect"]_vars

\* A write that carries an error response to session c.
IsErrorTo(w, c) ==
    /\ w.to = c
    /\ w.msg.type = RESPONSE
    /\ w.msg.data.status = "error"

\* The condition under which leave and msg find the session not a member.
NotMember(c) ==
    \/ Falsy(loc[c].channel) /\ clients[c].channels = {}
    \/ ~Falsy(loc[c].channel) /\ loc[c].channel \notin clients[c].channels

C12_FailedWriteDisconnects ==
    \A s \in Conns :
        (/\ s \in DOMAIN clients
         /\ \E t \in Conns : \E i \in DOMAIN out[t] : out[t][i].to = s /\ ~out[t][i].ok)
        ~> (/\ s \notin DOMAIN clients
            /\ \A ch \in DOMAIN channels : s \notin channels[ch])

\* C14: once the stop flag is set, shutdown finishes and the accept loop and
\* the idle checker have ended; the step in which shutdown clears the
\* registries writes one server_shutdown event to every session registered
\* then, closes their sockets and leaves both registries empty.
C14_ShutdownCompletes ==
    /\ (~running) ~> (mainpc = "done" /\ idlepc = "done")
    /\ [][(mainpc # "done" /\ mainpc' = "done") =>
            /\ \A s \in Conns :
                   Copies(out'[Main], s, evt_server_shutdown("Server shutting down")) =
                       IF s \in DOMAIN clients THEN 1 ELSE 0
            /\ \A s \in DOMAIN clients : sock_closed'[s]
            /\ DOMAIN clients' = {}
            /\ DOMAIN channels' = {}]_vars

\* The handler threads that have acquired a pool slot and not released it.
PastAcquire == {c \in Conns : pc[c] \notin {"idle", "sem_wait", "closed"}}

\* C16: at most max_threads handlers are past the semaphore acquire and at
\* most max_threads sessions are registered; a connection whose handler waits
\* for a slot is not registered and has been written nothing.
C16_PoolBound ==
    /\ Cardinality(PastAcquire) <= max_threads
    /\ Cardinality(DOMAIN clients) <= max_threads
    /\ DOMAIN clients \subseteq PastAcquire
    /\ \A c \in Conns : pc[c] = "sem_wait" => (c \notin DOMAIN clients /\ out[c] = <<>>)

\* C16 witness: max_threads sessions are registered and one more connection
\* has been accepted and waits for a slot.
C16_Witness ==
    /\ Cardinality(DOMAIN clients) = max_threads
    /\ sem = 0
    /\ \E c \in Conns : pc[c] = "sem_wait"

\* C17: a connection that waits for a slot while the pool is full and the
\* connection of one of the active handlers has ended is eventually
\* registered and welcomed.
C17_WaiterAdmitted ==
    \A w \in Conns :
        (/\ pc[w] = "sem_wait" /\ sem = 0
         /\ Cardinality(DOMAIN clients) = max_threads
         /\ \E d \in Conns : pc[d] = "disconnect")
        ~> (pc[w] \notin {"sem_wait", "register"} /\ w \in DOMAIN clients)

\* C18: when the idle checker sets the stop flag, no session is registered
\* and more than idle_timeout seconds have passed since the last client
\* activity.
C18_StopsOnlyWhenIdle ==
    [][(idlepc = "stop" /\ idlepc' = "done") =>
            /\ ~running'
            /\ DOMAIN clients = {}
            /\ now - last_activity > idle_timeout]_vars

\* The nicknames the format rule allows: not empty, at most MaxNickLen
\* characters, letters, digits and underscores only.
NickAllowed(n) ==
    /\ n # EmptyStr
    /\ Len(n) <= MaxNickLen
    /\ \A i \in 1..Len(n) : n[i] \in Letters \cup Digits \cup {"_"}

\* C20: a nick with a nickname of the allowed form is not rejected for its
\* format; when no other session holds the nickname, the session's nickname
\* becomes it and one ok response carrying it is written; when another
\* session holds it, one nickname-in-use error is written and the session's
\* nickname stays as it was.
C20_NickSucceedsThenTaken ==
    [][\A c \in Chatters :
         /\ (pc[c] = "recv" /\ pc'[c] = "cmd_done" /\ loc'[c].cmd = "nick") =>
                ~NickAllowed(loc'[c].nickname)
         /\ (pc[c] = "nick_lock" /\ pc'[c] # pc[c] /\ c \in DOMAIN clients) =>
                IF NickTaken(clients, c, loc[c].nickname)
                THEN /\ clients' = clients
                     /\ Added(c) = <<Write(c, resp_error("nick", "Nickname already in use"),
                                           TRUE)>>
                ELSE /\ clients' = [clients EXCEPT ![c].nickname = loc[c].nickname]
                     /\ Added(c) = <<Write(c, resp_ok("nick", [nickname |-> loc[c].nickname]),
                                           FALSE)>>]_vars

\* The nicknames the specification calls invalid: empty, longer than
\* MaxNickLen, or with a character that is no letter, digit or underscore.
NickInvalid(n) == ~NickAllowed(n)

\* The outcome C21 requires of a nick step of c: one error response to c,
\* the command finished, and no session's nickname changed.
NickRefused(c) ==
    /\ pc'[c] = "cmd_done"
    /\ out'[c] = <<Write(c, resp_error("nick", "Invalid nickname format"), FALSE)>>
    /\ clients' = clients

\* C21 as stated: a nick command whose nickname, as sent, is empty, longer
\* than 20 characters or has a character other than letters, digits and
\* underscores is answered with an error response and changes no nickname.
C21_InvalidNickRefused ==
    [][\A c \in Chatters : \A n \in NickFormatInputs :
         (NickInvalid(n) /\ ReadFrame(c, CmdLine("nick", [nickname |-> n]))) =>
            NickRefused(c)]_vars

\* C21, amended: a nick command whose nickname is missing or, once the
\* whitespace around it is removed, empty, longer than 20 characters or with
\* a character other than letters, digits and underscores is answered with
\* one error response to the sender and changes no session's nickname.
C21_InvalidStrippedNickRefused ==
    [][\A c \in Chatters :
         /\ \A n \in NickFormatInputs :
                (NickInvalid(Strip(n)) /\ ReadFrame(c, CmdLine("nick", [nickname |-> n]))) =>
                    NickRefused(c)
         /\ ReadFrame(c, CmdLine("nick", EmptyDict)) => NickRefused(c)]_vars

\* C21 witness: a session that has taken the nickname bob has then been
\* refused a nickname of 21 characters, and is still called bob.
C21_Witness ==
    \E c \in Chatters :
        /\ c \in DOMAIN clients /\ clients[c].nickname = NickBob
        /\ pc[c] = "cmd_done" /\ loc[c].cmd = "nick" /\ loc[c].nickname = LongNick
        /\ out[c] = <<Write(c, resp_error("nick", "Invalid nickname format"), FALSE)>>

\* The channel names the specification calls invalid: not starting with '#',
\* or shorter than MinChannelLen (the empty name is both).
ChannelInvalid(ch) == ch = EmptyStr \/ ch[1] # "#" \/ Len(ch) < MinChannelLen

\* The outcome C22 requires of a join step of c: one error response to c,
\* the command finished with no broadcast to come, and both registries as
\* they were.
JoinRefused(c) ==
    /\ pc'[c] = "cmd_done"
    /\ out'[c] = <<Write(c, resp_error("join", "Invalid channel name"), FALSE)>>
    /\ clients' = clients
    /\ channels' = channels

\* C22 as stated: a join whose channel name, as sent, does not start with
\* '#' or is shorter than 2 characters is answered with an error response,
\* changes neither registry and broadcasts nothing.
C22_InvalidJoinRefused ==
    [][\A c \in Chatters : \A ch \in JoinFormatInputs :
         (ChannelInvalid(ch) /\ ReadFrame(c, CmdLine("join", [channel |-> ch]))) =>
            JoinRefused(c)]_vars

\* C22, amended: a join whose channel name is missing or, once the
\* whitespace around it is removed, does not start with '#' or is shorter
\* than 2 characters is answered with one error response to the sender;
\* the channel registry and every session's joined set stay as they were
\* and no event is written.
C22_InvalidStrippedJoinRefused ==
    [][\A c \in Chatters :
         /\ \A ch \in JoinFormatInputs :
                (/\ ChannelInvalid(Strip(ch))
                 /\ ReadFrame(c, CmdLine("join", [channel |-> ch]))) => JoinRefused(c)
         /\ ReadFrame(c, CmdLine("join", EmptyDict)) => JoinRefused(c)]_vars

\* C22 witness: a session that is a member of #a has been refused a join,
\* and #a, with that session as its member, is the only channel.
C22_Witness ==
    \E c \in Chatters :
        /\ c \in DOMAIN clients /\ clients[c].channels = {ChanA}
        /\ DOMAIN channels = {ChanA} /\ c \in channels[ChanA]
        /\ pc[c] = "cmd_done" /\ loc[c].cmd = "join"
        /\ out[c] = <<Write(c, resp_error("join", "Invalid channel name"), FALSE)>>

\* C23: a leave that names a channel the session is not a member of, and a
\* leave without a channel from a session that has joined none, is answered
\* with one error response to the sender; clients and channels stay as they
\* were and the command ends with no user_left broadcast.
C23_LeaveNotMemberRefused ==
    [][\A c \in Chatters :
         (/\ pc[c] = "leave_lock" /\ pc'[c] # pc[c]
          /\ c \in DOMAIN clients
          /\ NotMember(c)) =>
            /\ pc'[c] = "cmd_done"
            /\ Len(out'[c]) = 1
            /\ IsErrorTo(out'[c][1], c)
            /\ out'[c][1].msg.name = "leave"
            /\ clients' = clients
            /\ channels' = channels]_vars

\* C23 witness: a member of #a has been refused a leave of #b, which another
\* session is in, and both channels have the members they had.
C23_Witness ==
    \E c, d \in Chatters :
        /\ c # d
        /\ c \in DOMAIN clients /\ clients[c].channels = {ChanA}
        /\ d \in DOMAIN clients /\ clients[d].channels = {ChanB}
        /\ DOMAIN channels = {ChanA, ChanB}
        /\ channels[ChanA] = {c} /\ channels[ChanB] = {d}
        /\ pc[c] = "cmd_done" /\ loc[c].cmd = "leave" /\ loc[c].channel = ChanB
        /\ out[c] = <<Write(c, resp_error("leave", "Not in that channel"), TRUE)>>

\* A msg frame with channel argument ch finds session c not a member.
NotMemberOf(c, ch) ==
    \/ Falsy(ch) /\ clients[c].channels = {}
    \/ ~Falsy(ch) /\ ch \notin clients[c].channels

\* The writes of o that carry a message event.
MessageEvents(o) ==
    {i \in DOMAIN o : o[i].msg.type = EVENT /\ o[i].msg.name = "message"}

\* Message events are written by the broadcast of a msg command only, for
\* the channel the command was checked for; and a msg command gets to its
\* broadcast only for a channel that is in the sender's joined set when
\* the command is checked.
MessagesFromMembersOnly ==
    \A c \in Chatters :
        /\ (pc[c] = "msg_lock" /\ pc'[c] = "msg_bcast") =>
               (c \in DOMAIN clients /\ loc'[c].channel \in clients[c].channels)
        /\ \A i \in MessageEvents(Added(c)) :
               /\ pc[c] = "msg_bcast"
               /\ Added(c)[i].msg.data.channel = loc[c].channel
               /\ Added(c)[i].to \in MembersOf(channels, loc[c].channel)

\* A msg command of a registered session that is not a member is refused
\* when it is checked: one error response, no broadcast, registries as
\* they were.
MsgRefusedAtCheck ==
    \A c \in Chatters :
        (/\ pc[c] = "msg_lock" /\ pc'[c] # pc[c]
         /\ c \in DOMAIN clients
         /\ NotMember(c)) =>
            /\ pc'[c] = "cmd_done"
            /\ Len(out'[c]) = 1
            /\ IsErrorTo(out'[c][1], c)
            /\ out'[c][1].msg.name = "msg"
            /\ clients' = clients
            /\ channels' = channels

\* C29 as stated: every msg command of a session that is not a member of
\* the channel it is for, whatever its text, is answered with an error
\* response and delivers no message event; message events come from
\* members only.
C29_MsgNotMemberRefused ==
    [][/\ \A c \in Chatters : \A t \in MsgTexts : \A ch \in ChannelArgs :
            (/\ c \in DOMAIN clients /\ NotMemberOf(c, ch)
             /\ ReadFrame(c, CmdLine("msg", WithChannel([text |-> t], ch)))
             /\ pc'[c] = "cmd_done") =>
                \E i \in DOMAIN out'[c] : IsErrorTo(out'[c][i], c)
       /\ MsgRefusedAtCheck
       /\ MessagesFromMembersOnly]_vars

\* C29, amended: a msg command with a text that is not blank, from a session
\* that is not a member of the channel it is for, is answered with one error
\* response and delivers no message event; a msg command with a blank text
\* is dropped without any write; message events come from members only.
C29_MsgWithTextNotMemberRefused ==
    [][/\ \A c \in Chatters : \A t \in MsgTexts : \A ch \in ChannelArgs :
            ReadFrame(c, CmdLine("msg", WithChannel([text |-> t], ch))) =>
                IF Strip(t) = EmptyStr
                THEN pc'[c] = "cmd_done" /\ out'[c] = <<>>
                ELSE pc'[c] = "msg_lock" /\ out'[c] = <<>>
       /\ MsgRefusedAtCheck
       /\ MessagesFromMembersOnly]_vars

\* C29 witness: a member of #a has been refused a msg for #b, a channel
\* that exists and has another session as its member.
C29_Witness ==
    \E c, d \in Chatters :
        /\ c # d
        /\ c \in DOMAIN clients /\ clients[c].channels = {ChanA}
        /\ ChanB \in DOMAIN channels /\ channels[ChanB] = {d}
        /\ pc[c] = "cmd_done" /\ loc[c].cmd = "msg"
        /\ out[c] = <<Write(c, resp_error("msg", "Not in that channel"), TRUE)>>

\* C28: whenever no thread is inside a client_lock block, the two registries
\* agree: a session is in the member set of a channel exactly when it is
\* registered and the channel is in its joined set (so every member of
\* every channel is registered in clients).
C28_RegistriesAgree ==
    lock = NoHolder =>
        \A s \in Conns : \A ch \in JoinInputs :
            (s \in MembersOf(channels, ch)) <=>
                (s \in DOMAIN clients /\ ch \in clients[s].channels)

\* The sessions that have joined ch and have neither left it nor been
\* disconnected: the registered sessions with ch in their joined set.
JoinedNow(ch) == {s \in DOMAIN clients : ch \in clients[s].channels}

\* C24: the response of a list command that reaches its connection reports
\* exactly the channels that have a session joined now, each with the
\* number of those sessions; a channel whose last member has left or been
\* disconnected is not in it.
C24_ListCounts ==
    [][\A c \in Chatters :
         (pc[c] = "list_lock" /\ pc'[c] = "cmd_done") =>
            /\ Len(Added(c)) = 1
            /\ Added(c)[1].to = c
            /\ Added(c)[1].ok =>
                   Added(c)[1].msg =
                       resp_list_channels(
                           {[name |-> ch, users |-> Cardinality(JoinedNow(ch))] :
                               ch \in {x \in JoinInputs : JoinedNow(x) # {}}})]_vars

\* C24 witness: a list response that reports #a with two users, and no
\* other channel, has reached its connection.
C24_Witness ==
    \E c \in Chatters :
        /\ pc[c] = "cmd_done" /\ loc[c].cmd = "list"
        /\ out[c] = <<[to |-> c, ok |-> TRUE, locked |-> FALSE,
                       msg |-> resp_list_channels({[name |-> ChanA, users |-> 2]})]>>

\* C30: a command that decodes and has a payload of the wrong type (data
\* that is no mapping, or a nickname, channel or text that is no string)
\* does not end the read loop of a registered session, changes no registry,
\* and is answered with one error response to the sender: at once, or when
\* the handler has looked the channel up.
C30_WronglyTypedPayloadRefused ==
    [][\A c \in Chatters :
         /\ \A line \in WronglyTypedFrames :
                (c \in DOMAIN clients /\ ReadFrame(c, line)) =>
                    /\ pc'[c] # "disconnect"
                    /\ pc'[c] = "cmd_done" =>
                           (Len(out'[c]) = 1 /\ IsErrorTo(out'[c][1], c))
         /\ (/\ pc[c] \in {"leave_lock", "msg_lock"} /\ pc'[c] # pc[c]
             /\ c \in DOMAIN clients
             /\ loc[c].channel \in {Unhashable, NotAName}) =>
                /\ pc'[c] = "cmd_done"
                /\ Len(out'[c]) = 1 /\ IsErrorTo(out'[c][1], c)
                /\ clients' = clients /\ channels' = channels]_vars

\* How many newlines a text has.
Newlines(t) == Cardinality({i \in DOMAIN t : t[i] = "\n"})

\* C26: for every message built by a constructor of the catalog, the
\* encoded text ends in a newline and has no other newline in it, and
\* decoding it gives a message with the same type, name and payload.
C26_RoundTrip ==
    codec.src = "catalog" =>
        /\ codec.stage \in {"encoded", "decoded"} =>
               /\ codec.line # <<>>
               /\ codec.line[Len(codec.line)] = "\n"
               /\ Newlines(codec.line) = 1
        /\ codec.stage = "decoded" =>
               /\ codec.result # DecodeError
               /\ codec.result.type = codec.m.type
               /\ codec.result.name = codec.m.name
               /\ codec.result.data = codec.m.data

\* C26 witness: an event whose text has a newline in it has been through
\* encode and decode.
C26_Witness ==
    /\ codec.stage = "decoded"
    /\ codec.m = PyMessage(evt_message(ChanA, NickBob, <<"h", "\n", "i">>, TickStep))
    /\ codec.result = codec.m

\* What the specification says makes decode fail: a line that is no JSON,
\* a value that is no object, no type or a type that is none of the three
\* kinds, or no name.
Malformed(v) ==
    \/ v = NotJson
    \/ v.t # "dict"
    \/ "type" \notin DOMAIN v.m
    \/ v.m["type"] \notin {Word(k) : k \in MessageType}
    \/ "name" \notin DOMAIN v.m

AnswerName(line) ==
    IF Decoded(line) = DecodeError THEN "unknown" ELSE Decoded(line).name.s[1]

\* C25: on one connection the lines of a recv are processed one at a time
\* in the order received, and the responses are written in that order: the
\* responses written so far are those of the first lines of the chunk, in
\* the order of the lines, one for each line that has been processed, and
\* none for a line after the one being processed.
C25_ResponsesInOrder ==
    \A c \in Chatters :
        loc[c].chunk # <<>> =>
            LET got == loc[c].answers \o ResponseNames(out[c], c)
                k == Len(loc[c].chunk) - Len(loc[c].buffer)
            IN /\ Len(got) = IF pc[c] \in {"cmd_done", "next_line"} THEN k ELSE k - 1
               /\ \A i \in DOMAIN got : got[i] = AnswerName(loc[c].chunk[i])

\* C25 witness: a recv has brought list and then help, and the response to
\* list and then the response to help have been written.
C25_Witness ==
    \E c \in Chatters :
        /\ loc[c].chunk = <<CmdLine("list", EmptyDict), CmdLine("help", EmptyDict)>>
        /\ loc[c].buffer = <<>>
        /\ pc[c] = "cmd_done"
        /\ loc[c].answers = <<"list">>
        /\ ResponseNames(out[c], c) = <<"help">>

====
